---- MODULE Spec2Model ----
(***************************************************************************)
(* go-env-loader (package envldr): LoadEnv / LoadEnvUserParser populate    *)
(* the fields of a struct from environment variables named by struct tags. *)
(* The model follows the current revision of the loader                    *)
(* (src/unnamed/part_001); the schema is the test schema of                *)
(* src/loader_test.go extended with the field shapes the loader treats     *)
(* specially.                                                              *)
(*                                                                         *)
(* Texts (tag values, environment values) are TLA+ strings; Chars gives a  *)
(* text's characters where the code looks inside a text.  A pointer is <<>>*)
(* when nil and <<v>> when it points to v.  A struct value is a function   *)
(* from field names to field values.                                       *)
(***************************************************************************)
EXTENDS Integers, Sequences, FiniteSets, TLC

\* Largest number of environment variables set at the same time.
MaxSet == 2

(***************************************************************************)
(* reflect: types, kinds, struct fields, zero values                       *)
(***************************************************************************)
Nil == <<>>
Ref(v) == <<v>>

\* reflect.Type.Kind() of the types the schema uses.
Kind(t) ==
  CASE t = "string" -> "String"
    [] t = "int" -> "Int"
    [] t \in {"int8", "MyInt8"} -> "Int8"
    [] t = "int16" -> "Int16"
    [] t = "int32" -> "Int32"
    [] t \in {"int64", "MyInt64"} -> "Int64"
    [] t = "uint" -> "Uint"
    [] t = "uint8" -> "Uint8"
    [] t = "uint16" -> "Uint16"
    [] t = "uint32" -> "Uint32"
    [] t = "uint64" -> "Uint64"
    [] t = "float32" -> "Float32"
    [] t = "float64" -> "Float64"
    [] t = "bool" -> "Bool"
    [] t = "[]string" -> "Slice"
    [] t = "[2]string" -> "Array"
    [] t \in {"TestStruct", "TestSubStruct", "Mid", "Inner", "Hid", "Emp"} -> "Struct"

\* A reflect.StructField: Ptr says the declared type is *Type, Tag is the
\* struct tag as a function from tag keys to values, PkgPath is "" exactly
\* for an exported field.
Fld(name, type, ptr, tag) ==
  [Name |-> name, Type |-> type, Ptr |-> ptr, Tag |-> tag, PkgPath |-> ""]
Unexported(name, type, ptr, tag) ==
  [Name |-> name, Type |-> type, Ptr |-> ptr, Tag |-> tag, PkgPath |-> "envldr"]

NoTag == <<>>
Var(name) == "env_var" :> name

\* The struct types: for each its fields, in declaration order.
Schema ==
  [Inner |-> <<
         Fld("Deep", "string", FALSE, Var("DEEP_VAR")) >>,
   Mid |-> <<
         Fld("In", "Inner", FALSE, NoTag) >>,
   Hid |-> <<
         Unexported("hidden", "string", FALSE, Var("HID_VAR")) >>,
   Emp |-> <<
         Fld("E", "string", FALSE, Var("")) >>,
   TestSubStruct |-> <<
         Fld("Var", "string", FALSE, Var("SUB_VAR")),
         Fld("VarPtr", "string", TRUE, Var("SUB_VAR")),
         Fld("VarNilPtr", "string", TRUE, Var("SUB_VAR")),
         Fld("Plain", "string", FALSE, NoTag),
         Fld("Num", "int16", FALSE, Var("SUB_NUM")) >>,
   TestStruct |-> <<
         Fld("Var1", "string", FALSE, Var("VAR_1")),
         Fld("Var1Ptr", "string", TRUE, Var("VAR_1")),
         Fld("Var1NilPtr", "string", TRUE, Var("VAR_1")),
         Unexported("var1", "string", FALSE, Var("VAR_1")),
         Fld("Var3", "int8", FALSE, Var("VAR_3")),
         Fld("Var4NilPtr", "int16", TRUE, Var("VAR_4")),
         Fld("Var4", "int16", FALSE, Var("VAR_4")),
         Fld("Var5", "int32", FALSE, Var("VAR_5")),
         Fld("Var6", "int64", FALSE, Var("VAR_6")),
         Fld("Var6Ptr", "int64", TRUE, Var("VAR_6")),
         Fld("Var6NilPtr", "int64", TRUE, Var("VAR_6")),
         Fld("Var8", "uint8", FALSE, Var("VAR_8")),
         Fld("Var9", "uint16", FALSE, Var("VAR_9")),
         Fld("Var10", "uint32", FALSE, Var("VAR_10")),
         Fld("Var11", "uint64", FALSE, Var("VAR_11")),
         Fld("Var13", "float64", FALSE, Var("VAR_13")),
         Fld("Var14", "[]string", FALSE, Var("VAR_14")),
         Fld("Var17", "TestSubStruct", FALSE, Var("VAR_17")),
         Fld("Var17Ptr", "TestSubStruct", TRUE, Var("VAR_17")),
         Fld("Var17NilPtr", "TestSubStruct", TRUE, Var("VAR_17")),
         Fld("Var18", "string", FALSE, NoTag),
         Fld("Var21", "bool", FALSE, Var("VAR_21")),
         Fld("Far", "Mid", TRUE, NoTag),
         Fld("HidPtr", "Hid", TRUE, NoTag),
         Fld("EmpPtr", "Emp", TRUE, NoTag),
         Fld("EmpVal", "Emp", FALSE, NoTag),
         Fld("Arr", "[2]string", FALSE, Var("VAR_ARR")),
         Fld("ArrNilPtr", "[2]string", TRUE, Var("VAR_ARR")),
         Fld("Kw", "string", FALSE,
             Var("VAR_KW") @@ ("env_parser" :> "upper") @@ ("env_params" :> "x;k=v;a=b=c")),
         Fld("Kw2", "string", FALSE,
             Var("VAR_KW") @@ ("env_parser" :> "lower")),
         Fld("N1", "MyInt8", FALSE, Var("VAR_N")),
         Fld("N2", "MyInt64", FALSE, Var("VAR_N")) >>]

\* reflect.Type.Field(i), i = 1..NumField.
Fields(t) == Schema[t]

FieldNames(t) == {Fields(t)[i].Name : i \in 1..Len(Fields(t))}
FieldOf(t, name) == CHOOSE f \in {Fields(t)[i] : i \in 1..Len(Fields(t))} : f.Name = name

AllTypes ==
  {"string", "int", "int8", "MyInt8", "int16", "int32", "int64", "MyInt64", "uint", "uint8",
   "uint16", "uint32", "uint64", "float32", "float64", "bool", "[]string", "[2]string",
   "TestStruct", "TestSubStruct", "Mid", "Inner", "Hid", "Emp"}

RECURSIVE ZeroOf(_)
ZeroOf(t) ==
  CASE Kind(t) = "String" -> ""
    [] Kind(t) = "Bool" -> FALSE
    [] Kind(t) \in {"Float32", "Float64"} -> <<0, 0>>
    [] Kind(t) = "Slice" -> <<>>
    [] Kind(t) = "Array" -> <<"", "">>
    [] Kind(t) = "Struct" ->
         [n \in FieldNames(t) |->
            IF FieldOf(t, n).Ptr THEN Nil ELSE ZeroOf(FieldOf(t, n).Type)]
    [] OTHER -> 0

ZeroValues == [t \in AllTypes |-> ZeroOf(t)]

\* reflect.Zero / reflect.New(t).Elem(): the zero value of a type.
Zero(t) == ZeroValues[t]

\* The value a field refers to: the field itself, what a non-nil pointer
\* points to, or the zero value reflect.New allocates for a nil pointer.
Target(structField, fieldValue) ==
  IF ~structField.Ptr THEN fieldValue
  ELSE IF fieldValue = Nil THEN Zero(structField.Type)
  ELSE fieldValue[1]

\* The one element of a set of one element: The({F(x) : x \in {v}}) is F(v),
\* with v worked out once.
The(S) == CHOOSE x \in S : TRUE

(***************************************************************************)
(* Texts and the standard-library conversions the loader calls             *)
(***************************************************************************)
\* The characters of every text the model uses.
Chars(s) ==
  CASE s = "" -> <<>>
    [] s = "test" -> <<"t", "e", "s", "t">>
    [] s = "1" -> <<"1">>
    [] s = "7" -> <<"7">>
    [] s = "3" -> <<"3">>
    [] s = "-129" -> <<"-", "1", "2", "9">>
    [] s = "99999" -> <<"9", "9", "9", "9", "9">>
    [] s = "40000" -> <<"4", "0", "0", "0", "0">>
    [] s = "2147483648" -> <<"2", "1", "4", "7", "4", "8", "3", "6", "4", "8">>
    [] s = "9223372036854775808" -> <<"9", "2", "2", "3", "3", "7", "2", "0", "3", "6", "8", "5", "4", "7", "7", "5", "8", "0", "8">>
    [] s = "300" -> <<"3", "0", "0">>
    [] s = "70000" -> <<"7", "0", "0", "0", "0">>
    [] s = "4294967296" -> <<"4", "2", "9", "4", "9", "6", "7", "2", "9", "6">>
    [] s = "18446744073709551616" -> <<"1", "8", "4", "4", "6", "7", "4", "4", "0", "7", "3", "7", "0", "9", "5", "5", "1", "6", "1", "6">>
    [] s = "1.5" -> <<"1", ".", "5">>
    [] s = "x" -> <<"x">>
    [] s = "true" -> <<"t", "r", "u", "e">>
    [] s = "yes" -> <<"y", "e", "s">>
    [] s = "deep" -> <<"d", "e", "e", "p">>
    [] s = "h" -> <<"h">>
    [] s = "kw" -> <<"k", "w">>
    [] s = "[\"a\",\"b\"]" -> <<"[", "\"", "a", "\"", ",", "\"", "b", "\"", "]">>
    [] s = "{\"Var\":\"test\",\"VarPtr\":\"p\"}" -> <<"{", "\"", "V", "a", "r", "\"", ":", "\"", "t", "e", "s", "t", "\"", ",", "\"", "V", "a", "r", "P", "t", "r", "\"", ":", "\"", "p", "\"", "}">>
    [] s = "{\"Var\":" -> <<"{", "\"", "V", "a", "r", "\"", ":">>
    [] s = "x;k=v;a=b=c" -> <<"x", ";", "k", "=", "v", ";", "a", "=", "b", "=", "c">>
    [] s = "128" -> <<"1", "2", "8">>
    [] s = "256" -> <<"2", "5", "6">>
    [] s = "32768" -> <<"3", "2", "7", "6", "8">>
    [] s = "65536" -> <<"6", "5", "5", "3", "6">>

Digit == {"0", "1", "2", "3", "4", "5", "6", "7", "8", "9"}
DigitVal(c) ==
  CASE c = "0" -> 0 [] c = "1" -> 1 [] c = "2" -> 2 [] c = "3" -> 3 [] c = "4" -> 4
    [] c = "5" -> 5 [] c = "6" -> 6 [] c = "7" -> 7 [] c = "8" -> 8 [] c = "9" -> 9

RECURSIVE StripZeros(_)
StripZeros(d) ==
  IF Len(d) > 1 /\ d[1] = "0" THEN StripZeros(Tail(d)) ELSE d

\* a >= b for decimal numerals without leading zeros.
RECURSIVE DecGE(_, _)
DecGE(a, b) ==
  IF Len(a) # Len(b) THEN Len(a) > Len(b)
  ELSE IF a = <<>> THEN TRUE
  ELSE IF a[1] # b[1] THEN DigitVal(a[1]) > DigitVal(b[1])
  ELSE DecGE(Tail(a), Tail(b))

RECURSIVE ToNat(_)
ToNat(d) == IF d = <<>> THEN 0 ELSE 10 * ToNat(SubSeq(d, 1, Len(d) - 1)) + DigitVal(d[Len(d)])

\* The decimal numeral of 2^k, for the widths strconv distinguishes.
Pow2Dec(k) ==
  CASE k = 7 -> Chars("128")
    [] k = 8 -> Chars("256")
    [] k = 15 -> Chars("32768")
    [] k = 16 -> Chars("65536")
    [] k = 31 -> Chars("2147483648")
    [] k = 32 -> Chars("4294967296")
    [] k = 63 -> Chars("9223372036854775808")
    [] k = 64 -> Chars("18446744073709551616")

\* strconv.ParseUint(s, 10, bitSize) on the characters of s.  err is "nil",
\* "syntax" or "range"; the number returned with an error is not modelled
\* (the loader discards it).
ParseUint(s, bitSize) ==
  LET bs == IF bitSize = 0 THEN 64 ELSE bitSize
      d == StripZeros(s)
  IN IF s = <<>> \/ \E i \in 1..Len(s) : s[i] \notin Digit
       THEN [n |-> 0, err |-> "syntax"]
     ELSE IF DecGE(d, Pow2Dec(bs))
       THEN [n |-> 0, err |-> "range"]
     ELSE [n |-> ToNat(d), err |-> "nil"]

\* strconv.ParseInt(s, 10, bitSize) on the characters of s: the sign is cut
\* off, the rest must be an unsigned numeral of at most bitSize bits, and
\* its value must lie below the cutoff 2^(bitSize-1) (at it, when negative).
ParseInt(s, bitSize) ==
  LET bs == IF bitSize = 0 THEN 64 ELSE bitSize
      neg == s # <<>> /\ s[1] = "-"
      body == IF s # <<>> /\ s[1] \in {"+", "-"} THEN Tail(s) ELSE s
      d == StripZeros(body)
      cutoff == Pow2Dec(bs - 1)
  IN IF body = <<>> \/ \E i \in 1..Len(body) : body[i] \notin Digit
       THEN [n |-> 0, err |-> "syntax"]
     ELSE IF DecGE(d, Pow2Dec(bs)) THEN [n |-> 0, err |-> "range"]
     ELSE IF ~neg /\ DecGE(d, cutoff) THEN [n |-> 0, err |-> "range"]
     ELSE IF neg /\ DecGE(d, cutoff) /\ d # cutoff THEN [n |-> 0, err |-> "range"]
     ELSE [n |-> IF neg THEN 0 - ToNat(d) ELSE ToNat(d), err |-> "nil"]

\* strconv.ParseBool.
ParseBool(str) ==
  IF str \in {"1", "t", "T", "TRUE", "true", "True"} THEN [b |-> TRUE, err |-> "nil"]
  ELSE IF str \in {"0", "f", "F", "FALSE", "false", "False"} THEN [b |-> FALSE, err |-> "nil"]
  ELSE [b |-> FALSE, err |-> "syntax"]

\* strconv.ParseFloat on plain decimal texts (digits with at most one
\* point): the value is <<m, k>>, meaning m / 10^k, with k minimal.  Every
\* text of the model is such a decimal or is rejected by ParseFloat.
RECURSIVE NormFloat(_, _)
NormFloat(m, k) == IF k > 0 /\ m % 10 = 0 THEN NormFloat(m \div 10, k - 1) ELSE <<m, k>>

ParseFloat(s) ==
  LET neg == s # <<>> /\ s[1] = "-"
      body == IF s # <<>> /\ s[1] \in {"+", "-"} THEN Tail(s) ELSE s
      points == {i \in 1..Len(body) : body[i] = "."}
      p == IF points = {} THEN Len(body) + 1 ELSE CHOOSE i \in points : TRUE
      digits == SubSeq(body, 1, p - 1) \o SubSeq(body, p + 1, Len(body))
      m == ToNat(digits)
  IN IF Cardinality(points) > 1 \/ digits = <<>>
        \/ \E i \in 1..Len(digits) : digits[i] \notin Digit
       THEN [f |-> <<0, 0>>, err |-> "syntax"]
     ELSE [f |-> NormFloat(IF neg THEN 0 - m ELSE m, Len(body) - p + (IF points = {} THEN 1 ELSE 0)),
           err |-> "nil"]

\* strings.Split(s, sep) on characters, sep a single character.
RECURSIVE Split(_, _)
Split(s, sep) ==
  LET hits == {i \in 1..Len(s) : s[i] = sep}
  IN IF hits = {} THEN <<s>>
     ELSE LET i == CHOOSE x \in hits : \A y \in hits : x <= y
          IN <<SubSeq(s, 1, i - 1)>> \o Split(SubSeq(s, i + 1, Len(s)), sep)

\* strings.Contains(s, sep), sep a single character.
Contains(s, sep) == \E i \in 1..Len(s) : s[i] = sep

(***************************************************************************)
(* encoding/json, as far as the loader uses it                             *)
(***************************************************************************)
JNull == [k |-> "null"]
JStr(s) == [k |-> "string", s |-> s]
JNum(n) == [k |-> "number", n |-> n]
JInvalid == [k |-> "invalid"]

\* The JSON value a text denotes; JInvalid for a text that is not JSON.
JSON(s) ==
  CASE s = "[\"a\",\"b\"]" -> [k |-> "array", e |-> <<JStr("a"), JStr("b")>>]
    [] s = "{\"Var\":\"test\",\"VarPtr\":\"p\"}" ->
         [k |-> "object", m |-> ("Var" :> JStr("test")) @@ ("VarPtr" :> JStr("p"))]
    [] s \in {"1", "7", "3", "300", "40000", "70000", "99999"} ->
         JNum(ToNat(Chars(s)))
    [] s = "true" -> [k |-> "bool", b |-> TRUE]
    [] OTHER -> JInvalid

\* json.Unmarshal of the JSON value j into a value of type t that is cur
\* before the call: the (value, error) it leaves.  A null leaves cur alone;
\* an object sets the exported fields it names and leaves the others alone;
\* a pointer field is allocated for a value other than null.
RECURSIVE Decode(_, _, _)
Decode(t, j, cur) ==
  IF j.k = "null" THEN [v |-> cur, err |-> FALSE]
  ELSE CASE Kind(t) = "String" ->
              IF j.k = "string" THEN [v |-> j.s, err |-> FALSE] ELSE [v |-> cur, err |-> TRUE]
         [] Kind(t) = "Bool" ->
              IF j.k = "bool" THEN [v |-> j.b, err |-> FALSE] ELSE [v |-> cur, err |-> TRUE]
         [] Kind(t) = "Int16" ->
              IF j.k = "number" /\ j.n < 32768 THEN [v |-> j.n, err |-> FALSE]
              ELSE [v |-> cur, err |-> TRUE]
         [] Kind(t) = "Slice" ->
              IF j.k = "array"
                THEN The({[v |-> [i \in DOMAIN e |-> e[i].v],
                           err |-> \E i \in DOMAIN e : e[i].err] :
                          e \in {[i \in 1..Len(j.e) |-> Decode("string", j.e[i], "")]}})
                ELSE [v |-> cur, err |-> TRUE]
         [] Kind(t) = "Struct" ->
              IF j.k = "object"
                THEN The({[v |-> [n \in FieldNames(t) |->
                                    IF n \notin DOMAIN m THEN cur[n]
                                    ELSE IF j.m[n].k = "null"
                                      THEN (IF FieldOf(t, n).Ptr THEN Nil ELSE cur[n])
                                    ELSE IF FieldOf(t, n).Ptr THEN Ref(m[n].v) ELSE m[n].v],
                           err |-> \E n \in DOMAIN m : m[n].err] :
                          m \in {[n \in {x \in FieldNames(t) :
                                           FieldOf(t, x).PkgPath = "" /\ x \in DOMAIN j.m} |->
                                    Decode(FieldOf(t, n).Type, j.m[n],
                                           Target(FieldOf(t, n), cur[n]))]}})
                ELSE [v |-> cur, err |-> TRUE]
         [] OTHER -> [v |-> cur, err |-> TRUE]

\* json.Unmarshal([]byte(val), ptr): a text that is not JSON is an error and
\* leaves the target alone.
Unmarshal(t, val, cur) ==
  IF JSON(val).k = "invalid" THEN [v |-> cur, err |-> TRUE] ELSE Decode(t, JSON(val), cur)

(***************************************************************************)
(* The loader: tags, parsers, getEnv, getParser                            *)
(***************************************************************************)
varTag == "env_var"
parserTag == "env_parser"
paramsTag == "env_params"
separator == ";"
equal == "="

\* reflect.StructTag.Lookup.
Lookup(tag, key) ==
  IF key \in DOMAIN tag THEN [val |-> tag[key], ok |-> TRUE] ELSE [val |-> "", ok |-> FALSE]

\* os.LookupEnv on an environment e: e[name] is <<>> for an unset variable
\* and <<text>> for a set one.
LookupEnv(e, name) ==
  IF name \in DOMAIN e /\ e[name] # Nil THEN [val |-> e[name][1], ok |-> TRUE]
  ELSE [val |-> "", ok |-> FALSE]

bitSizeMap ==
  [Int |-> 0, Int16 |-> 16, Int32 |-> 32, Int64 |-> 64,
   Uint |-> 0, Uint16 |-> 16, Uint32 |-> 32, Uint64 |-> 64,
   Float32 |-> 32, Float64 |-> 64, Complex64 |-> 64, Complex128 |-> 128]

\* bitSizeMap[k]: a Go map yields 0 for a key it does not hold.
BitSize(k) == IF k \in DOMAIN bitSizeMap THEN bitSizeMap[k] ELSE 0

\* reflect.Value.Convert of an int64 or uint64 to an integer type: the value
\* is cut to the width of the type.  For the kinds parsed at 32 or 64 bits
\* the parsed number already lies in the range of the type.
Convert(n, t) ==
  CASE Kind(t) = "Int8" -> ((n + 128) % 256) - 128
    [] Kind(t) = "Uint8" -> n % 256
    [] Kind(t) = "Int16" -> ((n + 32768) % 65536) - 32768
    [] Kind(t) = "Uint16" -> n % 65536
    [] OTHER -> n

\* A parser's result: val is the interface value returned, with its dynamic
\* type t and its content v; err says the error is not nil.
intParser(t, val) ==
  LET r == ParseInt(Chars(val), BitSize(Kind(t)))
  IN IF Kind(t) = "Int64" THEN [val |-> [t |-> "int64", v |-> r.n], err |-> r.err # "nil"]
     ELSE [val |-> [t |-> t, v |-> Convert(r.n, t)], err |-> r.err # "nil"]

uintParser(t, val) ==
  LET r == ParseUint(Chars(val), BitSize(Kind(t)))
  IN IF Kind(t) = "Uint64" THEN [val |-> [t |-> "uint64", v |-> r.n], err |-> r.err # "nil"]
     ELSE [val |-> [t |-> t, v |-> Convert(r.n, t)], err |-> r.err # "nil"]

floatParser(t, val) ==
  LET r == ParseFloat(Chars(val))
  IN IF Kind(t) = "Float64" THEN [val |-> [t |-> "float64", v |-> r.f], err |-> r.err # "nil"]
     ELSE [val |-> [t |-> t, v |-> r.f], err |-> r.err # "nil"]

boolParser(t, val) ==
  [val |-> [t |-> "bool", v |-> ParseBool(val).b], err |-> ParseBool(val).err # "nil"]

stringParser(t, val) == [val |-> [t |-> "string", v |-> val], err |-> FALSE]

\* A faulty jsonParser, to test the properties against: the document is
\* checked but decoded into a copy, and the fresh zero value is returned.
jsonParserZero(t, val) ==
  [val |-> [t |-> t, v |-> Zero(t)], err |-> Unmarshal(t, val, Zero(t)).err]

\* v := reflect.New(t); json.Unmarshal(val, v): the loader stores what v
\* points to, a value of type t.
jsonParser(t, val) ==
  LET r == Unmarshal(t, val, Zero(t))
  IN [val |-> [t |-> t, v |-> r.v], err |-> r.err]

\* The built-in table, for the kinds of the schema.
parsers ==
  [Uint |-> "uintParser", Uint8 |-> "uintParser", Uint16 |-> "uintParser",
   Uint32 |-> "uintParser", Uint64 |-> "uintParser",
   Int |-> "intParser", Int8 |-> "intParser", Int16 |-> "intParser",
   Int32 |-> "intParser", Int64 |-> "intParser",
   Float32 |-> "floatParser", Float64 |-> "floatParser",
   Bool |-> "boolParser", String |-> "stringParser",
   Slice |-> "jsonParser", Map |-> "jsonParser", Struct |-> "jsonParser"]

\* Parsers a caller registers: upperP, typeP and kindP return a fixed string
\* converted to the field's type, errP returns an error, badP returns an
\* int64 whatever the field's type is.
UserParsers == {"upperP", "typeP", "kindP", "errP", "badP"}

\* p(fieldType, envVal, params, kwParams) for the parser named p.
Apply(p, t, val, params, kwParams) ==
  CASE p = "intParser" -> intParser(t, val)
    [] p = "uintParser" -> uintParser(t, val)
    [] p = "floatParser" -> floatParser(t, val)
    [] p = "boolParser" -> boolParser(t, val)
    [] p = "stringParser" -> stringParser(t, val)
    [] p = "jsonParser" -> jsonParser(t, val)
    [] p = "upperP" -> [val |-> [t |-> t, v |-> "UPPER"], err |-> FALSE]
    [] p = "typeP" -> [val |-> [t |-> t, v |-> "TYPE"], err |-> FALSE]
    [] p = "kindP" -> [val |-> [t |-> t, v |-> "KIND"], err |-> FALSE]
    [] p = "errP" -> [val |-> [t |-> t, v |-> ""], err |-> TRUE]
    [] p = "badP" -> [val |-> [t |-> "int64", v |-> 0], err |-> FALSE]

\* The keyword parameters of the tokens, in a map from key to value.
RECURSIVE KwParams(_)
KwParams(parts) ==
  IF parts = <<>> THEN <<>>
  ELSE LET v == parts[Len(parts)]
           kp == Split(v, equal)
           before == KwParams(SubSeq(parts, 1, Len(parts) - 1))
       IN IF Contains(v, equal) THEN (kp[1] :> kp[2]) @@ before ELSE before

\* A faulty getEnv, to test the properties against: the ok of os.LookupEnv is
\* dropped, so that a declared variable counts as set whatever the
\* environment holds.
getEnvDeclared(st, e) ==
  LET tagged == Lookup(st.Tag, varTag)
      looked == LookupEnv(e, tagged.val)
      psr == Lookup(st.Tag, parserTag)
  IN [val |-> IF tagged.ok /\ tagged.val # "" THEN looked.val ELSE tagged.val,
      parserKw |-> IF tagged.ok /\ tagged.val # "" /\ psr.ok THEN psr.val ELSE "",
      params |-> <<>>, kwParams |-> <<>>,
      ok |-> tagged.ok]

getEnv(st, e) ==
  LET tagged == Lookup(st.Tag, varTag)
      looked == LookupEnv(e, tagged.val)
      psr == Lookup(st.Tag, parserTag)
      prms == Lookup(st.Tag, paramsTag)
      parts == Split(Chars(prms.val), separator)
      withParams == prms.ok /\ prms.val # ""
  IN IF tagged.ok /\ tagged.val # ""
       THEN [val |-> looked.val,
             parserKw |-> IF psr.ok /\ psr.val # "" THEN psr.val ELSE "",
             params |-> IF withParams
                          THEN SelectSeq(parts, LAMBDA v : ~Contains(v, equal)) ELSE <<>>,
             kwParams |-> IF withParams THEN KwParams(parts) ELSE <<>>,
             ok |-> looked.ok]
       ELSE [val |-> tagged.val, parserKw |-> "", params |-> <<>>, kwParams |-> <<>>,
             ok |-> tagged.ok]

\* A parser table a caller passes: nil, or a map m.
NilMap == [nil |-> TRUE, m |-> <<>>]
Map(m) == [nil |-> FALSE, m |-> m]

\* A faulty getParser, to test the properties against: a kind the built-in
\* table does not hold gets the JSON parser.
getParserJsonDefault(kwParsers, typeParsers, kindParsers, parserKw, fType) ==
  IF parserKw # "" /\ ~kwParsers.nil /\ parserKw \in DOMAIN kwParsers.m
    THEN [parser |-> kwParsers.m[parserKw], ok |-> TRUE]
  ELSE IF ~typeParsers.nil /\ fType \in DOMAIN typeParsers.m
    THEN [parser |-> typeParsers.m[fType], ok |-> TRUE]
  ELSE IF ~kindParsers.nil /\ Kind(fType) \in DOMAIN kindParsers.m
    THEN [parser |-> kindParsers.m[Kind(fType)], ok |-> TRUE]
  ELSE IF Kind(fType) \in DOMAIN parsers
    THEN [parser |-> parsers[Kind(fType)], ok |-> TRUE]
  ELSE [parser |-> "jsonParser", ok |-> TRUE]

\* A faulty getParser, to test the properties against: the caller's kind
\* table is asked before the caller's type table.
getParserKindFirst(kwParsers, typeParsers, kindParsers, parserKw, fType) ==
  IF parserKw # "" /\ ~kwParsers.nil /\ parserKw \in DOMAIN kwParsers.m
    THEN [parser |-> kwParsers.m[parserKw], ok |-> TRUE]
  ELSE IF ~kindParsers.nil /\ Kind(fType) \in DOMAIN kindParsers.m
    THEN [parser |-> kindParsers.m[Kind(fType)], ok |-> TRUE]
  ELSE IF ~typeParsers.nil /\ fType \in DOMAIN typeParsers.m
    THEN [parser |-> typeParsers.m[fType], ok |-> TRUE]
  ELSE IF Kind(fType) \in DOMAIN parsers
    THEN [parser |-> parsers[Kind(fType)], ok |-> TRUE]
  ELSE [parser |-> "", ok |-> FALSE]

getParser(kwParsers, typeParsers, kindParsers, parserKw, fType) ==
  IF parserKw # "" /\ ~kwParsers.nil /\ parserKw \in DOMAIN kwParsers.m
    THEN [parser |-> kwParsers.m[parserKw], ok |-> TRUE]
  ELSE IF ~typeParsers.nil /\ fType \in DOMAIN typeParsers.m
    THEN [parser |-> typeParsers.m[fType], ok |-> TRUE]
  ELSE IF ~kindParsers.nil /\ Kind(fType) \in DOMAIN kindParsers.m
    THEN [parser |-> kindParsers.m[Kind(fType)], ok |-> TRUE]
  ELSE IF Kind(fType) \in DOMAIN parsers
    THEN [parser |-> parsers[Kind(fType)], ok |-> TRUE]
  ELSE [parser |-> "", ok |-> FALSE]

(***************************************************************************)
(* loadEnv                                                                 *)
(*                                                                         *)
(* A run of loadEnv is the record st: v is the struct value being filled,  *)
(* out is "ok" while the walk goes on, "error" once an error is returned   *)
(* and "panic" once reflect panics, at is the path of the field where it   *)
(* ended, and log lists what the walk did, in order: for every field it    *)
(* resolved an event "getEnv", for every parser call an event "parse", for *)
(* every store of a parsed value an event "set".                           *)
(***************************************************************************)
Event(ev, path, parser, ok, val) ==
  [ev |-> ev, path |-> path, parser |-> parser, ok |-> ok, val |-> val]

\* The struct v with the value x stored in (or behind the pointer of) the
\* field structField.
Store(v, structField, x) ==
  [v EXCEPT ![structField.Name] = IF structField.Ptr THEN Ref(x) ELSE x]

\* A faulty bindField, to test the properties against: the parser's result
\* is stored before its error is looked at.
bindFieldStoreFirst(st, structField, p, g, P) ==
  LET fieldType == structField.Type
      gp == getParser(P.kw, P.type, P.kind, g.parserKw, fieldType)
      r == Apply(gp.parser, fieldType, g.val, g.params, g.kwParams)
      parsed == Append(st.log, Event("parse", p, gp.parser, ~r.err, g.val)
                                @@ [params |-> g.params, kwParams |-> g.kwParams])
      stored == Store(st.v, structField, r.val.v)
  IN IF ~gp.ok THEN [st EXCEPT !.v = Store(st.v, structField, Target(structField, st.v[structField.Name]))]
     ELSE IF r.val.t # fieldType
       THEN [v |-> st.v, log |-> parsed, out |-> "panic", at |-> p]
     ELSE IF r.err
       THEN [v |-> stored, log |-> parsed, out |-> "error", at |-> p]
     ELSE [st EXCEPT !.v = stored,
                     !.log = Append(parsed, Event("set", p, gp.parser, TRUE, r.val.v))]

\* A faulty bindField, to test the properties against: for a nil pointer
\* the new value is made but not set in the field before the parser's
\* result is stored in it, so that the field points to a zero value.
bindFieldDetached(st, structField, p, g, P) ==
  LET fieldType == structField.Type
      cur == Target(structField, st.v[structField.Name])
      allocated == Store(st.v, structField, cur)
      gp == getParser(P.kw, P.type, P.kind, g.parserKw, fieldType)
      r == Apply(gp.parser, fieldType, g.val, g.params, g.kwParams)
      parsed == Append(st.log, Event("parse", p, gp.parser, ~r.err, g.val)
                                @@ [params |-> g.params, kwParams |-> g.kwParams])
      isNilPtr == structField.Ptr /\ st.v[structField.Name] = Nil
  IN IF ~gp.ok THEN [st EXCEPT !.v = allocated]
     ELSE IF r.err
       THEN [v |-> allocated, log |-> parsed, out |-> "error", at |-> p]
     ELSE IF r.val.t # fieldType
       THEN [v |-> allocated, log |-> parsed, out |-> "panic", at |-> p]
     ELSE [st EXCEPT !.v = IF isNilPtr THEN allocated ELSE Store(st.v, structField, r.val.v),
                     !.log = Append(parsed, Event("set", p, gp.parser, TRUE, r.val.v))]

\* The first branch of the loop body: the field structField, at path p, has
\* the value g from getEnv.  A nil pointer is allocated, the parser is looked
\* up and called, and its result is stored.
bindField(st, structField, p, g, P) ==
  LET fieldType == structField.Type
      cur == Target(structField, st.v[structField.Name])
      allocated == Store(st.v, structField, cur)
      gp == getParser(P.kw, P.type, P.kind, g.parserKw, fieldType)
      r == Apply(gp.parser, fieldType, g.val, g.params, g.kwParams)
      parsed == Append(st.log, Event("parse", p, gp.parser, ~r.err, g.val)
                                @@ [params |-> g.params, kwParams |-> g.kwParams])
  IN IF ~gp.ok THEN [st EXCEPT !.v = allocated]
     ELSE IF r.err
       THEN [v |-> allocated, log |-> parsed, out |-> "error", at |-> p]
     ELSE IF r.val.t # fieldType
       THEN [v |-> allocated, log |-> parsed, out |-> "panic", at |-> p]
     ELSE [st EXCEPT !.v = Store(st.v, structField, r.val.v),
                     !.log = Append(parsed, Event("set", p, gp.parser, TRUE, r.val.v))]

\* A faulty scan, to test the properties against: only the first field of
\* the struct type is looked at.
hasEnvValFirst(t, e) == Len(Fields(t)) > 0 /\ getEnv(Fields(t)[1], e).ok

\* The scan of the fields of the struct type t for one with a value in the
\* environment, made before a nil pointer to a t is allocated.
hasEnvVal(t, e) == \E x \in 1..Len(Fields(t)) : getEnv(Fields(t)[x], e).ok

\* A faulty descends, to test the properties against: loadEnv goes into no
\* field that declares a variable name.
descendsUntagged(structField, fieldValue, e) ==
  /\ Kind(structField.Type) = "Struct"
  /\ ~Lookup(structField.Tag, varTag).ok
  /\ \/ ~structField.Ptr
     \/ fieldValue # Nil
     \/ hasEnvVal(structField.Type, e)

\* The second branch of the loop body: whether loadEnv goes into the field,
\* which is a struct, a non-nil pointer to one, or a nil pointer to one that
\* the scan finds a value for.
descends(structField, fieldValue, e) ==
  /\ Kind(structField.Type) = "Struct"
  /\ \/ ~structField.Ptr
     \/ fieldValue # Nil
     \/ hasEnvVal(structField.Type, e)

RECURSIVE loadEnv(_, _, _, _, _, _)

\* The body of the loop of loadEnv for field i of the struct type t.
loadField(t, st, i, path, P, e) ==
  LET structField == Fields(t)[i]
      p == Append(path, structField.Name)
      fieldValue == st.v[structField.Name]
      g == getEnv(structField, e)
      resolved == [st EXCEPT !.log = Append(st.log, Event("getEnv", p, "", g.ok, g.val))]
      entered == Append(resolved.log, Event("loadEnv", p, "", TRUE, ""))
      sub == loadEnv(structField.Type,
                     [resolved EXCEPT !.v = Target(structField, fieldValue), !.log = entered],
                     1, p, P, e)
  IN IF structField.PkgPath # "" THEN st
     ELSE IF g.ok THEN bindField(resolved, structField, p, g, P)
     ELSE IF descends(structField, fieldValue, e)
       THEN The({[s EXCEPT !.v = Store(st.v, structField, s.v)] : s \in {sub}})
     ELSE resolved

\* loadEnv on the struct st.v of type t, from its field i on; path is the
\* path of the struct in the record LoadEnv was called with.
loadEnv(t, st, i, path, P, e) ==
  IF i > Len(Fields(t)) \/ st.out # "ok" THEN st
  ELSE The({loadEnv(t, s, i + 1, path, P, e) : s \in {loadField(t, st, i, path, P, e)}})

\* What a caller may pass as itf: a pointer to the record, the record itself,
\* a pointer to an int, a nil *TestStruct, or nil.
Targets == {"&testStruct", "testStruct", "&testInt", "(*TestStruct)(nil)", "nil"}

\* reflect.ValueOf(itf).Kind(), and the Kind() of its Elem().
ItfKind(itf) ==
  CASE itf \in {"&testStruct", "&testInt", "(*TestStruct)(nil)"} -> "Ptr"
    [] itf = "testStruct" -> "Struct"
    [] itf = "nil" -> "Invalid"
ElemKind(itf) ==
  CASE itf = "&testStruct" -> "Struct"
    [] itf = "&testInt" -> "Int"
    [] itf = "(*TestStruct)(nil)" -> "Invalid"

\* A faulty LoadEnvUserParser, to test the properties against: the target is
\* not looked at before the walk.
LoadEnvUserParserUnchecked(itf, r, P, e) ==
  loadEnv("TestStruct", [v |-> r, log |-> <<>>, out |-> "ok", at |-> <<>>], 1, <<>>, P, e)

\* LoadEnvUserParser(itf, keywordParsers, typeParsers, kindParsers), where
\* itf refers to the record r: the run it makes.
LoadEnvUserParser(itf, r, P, e) ==
  IF ItfKind(itf) = "Ptr" /\ ElemKind(itf) = "Struct"
    THEN loadEnv("TestStruct", [v |-> r, log |-> <<>>, out |-> "ok", at |-> <<>>], 1, <<>>, P, e)
    ELSE [v |-> r, log |-> <<>>, out |-> "panic", at |-> <<>>]

NoParsers == [kw |-> NilMap, type |-> NilMap, kind |-> NilMap]

(***************************************************************************)
(* The program: an environment, a record, and the calls on it              *)
(***************************************************************************)
VARIABLES
  env,         \* the process environment: variable name -> <<>> or <<text>>
  testStruct,  \* the caller's record, of type TestStruct
  pc,          \* "ready" before the call, "done" after it
  call,        \* the call made: its target and parser tables
  before,      \* the record as it was when the call was made
  result       \* the call's outcome: out, at and log of the run

vars == <<env, testStruct, pc, call, before, result>>

\* The variables the schema names, and the texts each is given.
EnvNames ==
  {"VAR_1", "VAR_3", "VAR_4", "VAR_5", "VAR_6", "VAR_8", "VAR_9",
   "VAR_10", "VAR_11", "VAR_13", "VAR_14", "VAR_17", "VAR_21", "SUB_VAR", "SUB_NUM",
   "DEEP_VAR", "HID_VAR", "VAR_ARR", "VAR_KW", "VAR_N"}

EnvTexts(name) ==
  CASE name = "VAR_1" -> {"test"}
    [] name = "VAR_3" -> {"1", "99999", "-129"}
    [] name = "VAR_4" -> {"1", "40000"}
    [] name = "VAR_5" -> {"2147483648"}
    [] name = "VAR_6" -> {"1", "9223372036854775808"}
    [] name = "VAR_8" -> {"300"}
    [] name = "VAR_9" -> {"70000"}
    [] name = "VAR_10" -> {"4294967296"}
    [] name = "VAR_11" -> {"1", "18446744073709551616"}
    [] name = "VAR_13" -> {"1.5", "x"}
    [] name = "VAR_14" -> {"[\"a\",\"b\"]"}
    [] name = "VAR_17" -> {"{\"Var\":\"test\",\"VarPtr\":\"p\"}", "{\"Var\":"}
    [] name = "VAR_21" -> {"true", "yes"}
    [] name = "SUB_VAR" -> {"test", ""}
    [] name = "SUB_NUM" -> {"7", "x"}
    [] name = "DEEP_VAR" -> {"deep"}
    [] name = "HID_VAR" -> {"h"}
    [] name = "VAR_ARR" -> {"x"}
    [] name = "VAR_KW" -> {"kw"}
    [] name = "VAR_N" -> {"3"}

\* The record a caller passes, after newTestStruct() of the tests: defaults
\* in Var1, Var18, Var21 and EmpVal, the ...Ptr fields pointing to defaults,
\* the ...NilPtr fields nil.
NewTestStruct ==
  [Zero("TestStruct") EXCEPT
     !.Var1 = "default",
     !.Var1Ptr = Ref("default"),
     !.Var6Ptr = Ref(1),
     !.Var17Ptr = Ref([Zero("TestSubStruct") EXCEPT
                         !.Var = "default", !.VarPtr = Ref("default"), !.Plain = "default"]),
     !.Var18 = "default",
     !.Var21 = TRUE,
     !.EmpVal = [E |-> "default"]]

InitialRecords == {NewTestStruct, Zero("TestStruct")}

\* The parser tables a caller passes to LoadEnvUserParser.
ParserTables ==
  {[kw |-> Map("upper" :> "upperP"), type |-> Map("string" :> "typeP"),
    kind |-> Map("String" :> "kindP")],
   [kw |-> NilMap, type |-> NilMap, kind |-> Map("String" :> "kindP")],
   [kw |-> Map("upper" :> "errP"), type |-> NilMap, kind |-> NilMap],
   [kw |-> Map("upper" :> "badP"), type |-> NilMap, kind |-> NilMap]}

NoCall == [op |-> "none", itf |-> "nil", P |-> NoParsers]
NoResult == [out |-> "none", at |-> <<>>, log |-> <<>>]

Init ==
  /\ env = [n \in EnvNames |-> Nil]
  /\ testStruct \in InitialRecords
  /\ pc = "ready"
  /\ call = NoCall
  /\ before = testStruct
  /\ result = NoResult

IsSet(n) == env[n] # Nil

\* os.Setenv(name, val).
Setenv(name, val) ==
  /\ pc = "ready"
  /\ IsSet(name) \/ Cardinality({n \in EnvNames : IsSet(n)}) < MaxSet
  /\ env' = [env EXCEPT ![name] = <<val>>]
  /\ UNCHANGED <<testStruct, pc, call, before, result>>

\* os.Unsetenv(name).
Unsetenv(name) ==
  /\ pc = "ready"
  /\ IsSet(name)
  /\ env' = [env EXCEPT ![name] = Nil]
  /\ UNCHANGED <<testStruct, pc, call, before, result>>

\* A call op(itf, P.kw, P.type, P.kind) and what it leaves behind.
Run(op, itf, P) ==
  /\ pc = "ready"
  /\ \E st \in {LoadEnvUserParser(itf, testStruct, P, env)} :
       /\ pc' = "done"
       /\ call' = [op |-> op, itf |-> itf, P |-> P]
       /\ before' = testStruct
       /\ testStruct' = st.v
       /\ result' = [out |-> st.out, at |-> st.at, log |-> st.log]
  /\ UNCHANGED env

\* LoadEnv(itf).
LoadEnv(itf) == Run("LoadEnv", itf, NoParsers)

\* LoadEnvUserParser(itf, keywordParsers, typeParsers, kindParsers).
CallLoadEnvUserParser(itf, P) == Run("LoadEnvUserParser", itf, P)

\* LoadEnv(itf) once more, with the target of the call before it, on the
\* record that call left and in the same environment.
LoadEnvAgain ==
  /\ pc = "done" /\ call.op = "LoadEnv"
  /\ \E st \in {LoadEnvUserParser(call.itf, testStruct, call.P, env)} :
       /\ pc' = "again"
       /\ before' = testStruct
       /\ testStruct' = st.v
       /\ result' = [out |-> st.out, at |-> st.at, log |-> st.log]
  /\ UNCHANGED <<env, call>>

\* The calls the model makes: LoadEnv with every target, and a second time
\* after that, and LoadEnvUserParser with the pointer to the record and
\* every table.
Next ==
  \/ \E name \in EnvNames : \E val \in EnvTexts(name) : Setenv(name, val)
  \/ \E name \in EnvNames : Unsetenv(name)
  \/ \E itf \in Targets : LoadEnv(itf)
  \/ \E P \in ParserTables : CallLoadEnvUserParser("&testStruct", P)
  \/ LoadEnvAgain

Spec == Init /\ [][Next]_vars

(***************************************************************************)
(* Vocabulary of the properties                                            *)
(***************************************************************************)
\* The fields of the struct type t at every depth, from its field i on, in
\* the order of the walk (declaration order, depth first): each with its
\* path from the record and the fields on the way to it, itself included.
RECURSIVE PathsFrom(_, _, _, _)
PathsFrom(t, i, prefix, way) ==
  IF i > Len(Fields(t)) THEN <<>>
  ELSE LET f == Fields(t)[i]
           p == Append(prefix, f.Name)
           w == Append(way, f)
       IN <<[path |-> p, f |-> f, way |-> w]>>
          \o (IF Kind(f.Type) = "Struct" THEN PathsFrom(f.Type, 1, p, w) ELSE <<>>)
          \o PathsFrom(t, i + 1, prefix, way)

AllFields == PathsFrom("TestStruct", 1, <<>>, <<>>)
Places == 1..Len(AllFields)
PathOf(i) == AllFields[i].path
FieldAt(i) == AllFields[i].f

\* The place of a path in the order of the walk.
Pos(p) == CHOOSE i \in Places : PathOf(i) = p

\* The field at the end of the way w in the struct value v: ex says that the
\* field exists (no pointer above it is nil), v is what the field holds (for
\* a pointer field the pointer).
RECURSIVE Get(_, _)
Get(v, w) ==
  LET x == v[w[1].Name]
  IN IF Len(w) = 1 THEN [ex |-> TRUE, v |-> x]
     ELSE IF w[1].Ptr /\ x = Nil THEN [ex |-> FALSE, v |-> Nil]
     ELSE Get(IF w[1].Ptr THEN x[1] ELSE x, Tail(w))

Before(i) == Get(before, AllFields[i].way)
After(i) == Get(testStruct, AllFields[i].way)

\* q is a proper prefix of p: the field at q is a record above the field at p.
IsAbove(q, p) == Len(q) < Len(p) /\ SubSeq(p, 1, Len(q)) = q

\* The annotation of a field, as the specification reads it: the field
\* declares a variable name, and it is satisfied when the name is not empty
\* and the environment has a value for it.
Declares(f) == "env_var" \in DOMAIN f.Tag
Named(f) == IF Declares(f) THEN f.Tag["env_var"] ELSE ""
Satisfied(f) == Declares(f) /\ Named(f) \in EnvNames /\ env[Named(f)] # Nil
Text(f) == env[Named(f)][1]
IsRecord(f) == Kind(f.Type) = "Struct"

\* A record above the field at place i has a satisfied annotation of its own.
BoundAbove(i) ==
  LET w == AllFields[i].way
  IN \E k \in 1..(Len(w) - 1) : Satisfied(w[k])

\* The call was made with a pointer to the record.
Bound == pc = "done" /\ call.itf = "&testStruct"

Resolved == {result.log[k].path : k \in {x \in DOMAIN result.log : result.log[x].ev = "getEnv"}}
Reached(i) == PathOf(i) \in Resolved

\* A field holding the value x: x itself, or a pointer to it.
Shaped(f, x) == IF f.Ptr THEN Ref(x) ELSE x

\* The call used the built-in coercions only.
BuiltIn == Bound /\ call.P = NoParsers

\* The value a text denotes for a leaf kind, where it is a valid
\* representation of one: decimal numerals, a decimal fraction (as <<m, k>>
\* for m / 10^k), a boolean literal, any text for a string, a JSON array of
\* strings for a sequence.
Denoted(kind, text) ==
  CASE kind = "String" -> [ok |-> TRUE, v |-> text]
    [] kind = "Bool" /\ text = "true" -> [ok |-> TRUE, v |-> TRUE]
    [] kind \in {"Int8", "Int16", "Int32", "Int64", "Uint8", "Uint16", "Uint32", "Uint64"}
         /\ text \in {"1", "3", "7"} ->
         [ok |-> TRUE, v |-> IF text = "1" THEN 1 ELSE IF text = "3" THEN 3 ELSE 7]
    [] kind = "Float64" /\ text = "1.5" -> [ok |-> TRUE, v |-> <<15, 1>>]
    [] kind = "Slice" /\ text = "[\"a\",\"b\"]" -> [ok |-> TRUE, v |-> <<"a", "b">>]
    [] OTHER -> [ok |-> FALSE, v |-> Nil]

\* C2, as stated: a field of a supported leaf kind whose variable holds a
\* valid representation of V equals V after the call, whether it is declared
\* by value or as a pointer, nil or not before the call.  (Stated for the
\* fields the walk came to, under the built-in coercions.)
C2_RoundTrip ==
  BuiltIn =>
    \A i \in Places :
      LET f == FieldAt(i)
      IN (/\ ~IsRecord(f) /\ f.PkgPath = ""
          /\ Satisfied(f) /\ ~BoundAbove(i)
          /\ Reached(i)
          /\ Denoted(Kind(f.Type), Text(f)).ok)
           => After(i).ex /\ After(i).v = Shaped(f, Denoted(Kind(f.Type), Text(f)).v)

\* The record the document {"Var":"test","VarPtr":"p"} denotes.
Document ==
  [Var |-> "test", VarPtr |-> <<"p">>, VarNilPtr |-> <<>>, Plain |-> "", Num |-> 0]

\* C3: a nested record field with a satisfied annotation of its own holds
\* after the call exactly the decode of its variable's document into a zero
\* record: the fields the document does not name are zero, whatever they
\* held before the call and whatever the variables of their own hold.
C3_Wholesale ==
  Bound =>
    \A i \in Places :
      LET f == FieldAt(i)
      IN (/\ IsRecord(f) /\ Satisfied(f) /\ ~BoundAbove(i)
          /\ Reached(i)
          /\ Text(f) = "{\"Var\":\"test\",\"VarPtr\":\"p\"}")
           => After(i).ex /\ After(i).v = Shaped(f, Document)

\* The three record fields bound from one document, while the variable of
\* their inner fields is set and the present one held defaults.
C3_Witness ==
  /\ Bound /\ result.out = "ok"
  /\ env["VAR_17"] = <<"{\"Var\":\"test\",\"VarPtr\":\"p\"}">>
  /\ env["SUB_VAR"] = <<"">>
  /\ before = NewTestStruct
  /\ testStruct.Var17 = Document
  /\ testStruct.Var17Ptr = Ref(Document)
  /\ testStruct.Var17NilPtr = Ref(Document)

\* The numerals of the model that lie outside the range of an integer kind.
OutOfRange(kind, text) ==
  \/ kind = "Int8" /\ text \in {"99999", "-129"}
  \/ kind = "Int16" /\ text = "40000"
  \/ kind = "Int32" /\ text = "2147483648"
  \/ kind = "Int64" /\ text = "9223372036854775808"
  \/ kind = "Uint8" /\ text = "300"
  \/ kind = "Uint16" /\ text = "70000"
  \/ kind = "Uint32" /\ text = "4294967296"
  \/ kind = "Uint64" /\ text = "18446744073709551616"

\* What a field refers to: its value, or for a pointer what it points to
\* (the zero value when it is nil).
Held(f, x) == IF ~f.Ptr THEN x ELSE IF x = Nil THEN Zero(f.Type) ELSE x[1]

\* C4, as stated: binding a numeral outside the range of the declared width
\* of an integer field fails at that field, and the field does not come to
\* hold another number.
C4_Overflow ==
  BuiltIn =>
    \A i \in Places :
      LET f == FieldAt(i)
      IN (/\ f.PkgPath = "" /\ Satisfied(f) /\ ~BoundAbove(i)
          /\ Reached(i) /\ Before(i).ex
          /\ OutOfRange(Kind(f.Type), Text(f)))
           => /\ result.out = "error" /\ result.at = PathOf(i)
              /\ Held(f, After(i).v) = Held(f, Before(i).v)

\* x lies below the record at place i.
Below(i, x) == IsAbove(PathOf(i), PathOf(x))

\* C5, as stated: a nil pointer to a record with no satisfied annotation of
\* its own and none on a field below it is nil after the call.
C5_StaysAbsent ==
  Bound =>
    \A i \in Places :
      LET f == FieldAt(i)
      IN (/\ IsRecord(f) /\ f.Ptr
          /\ Before(i).ex /\ Before(i).v = Nil
          /\ ~Satisfied(f) /\ ~BoundAbove(i)
          /\ \A x \in Places : Below(i, x) => ~Satisfied(FieldAt(x)))
           => After(i).v = Nil

\* The zero value of a field: nil for a pointer.
ZeroField(f) == IF f.Ptr THEN Nil ELSE Zero(f.Type)

\* C6, as stated: a nil pointer to a record with a satisfied annotation on
\* a field below it is allocated by a call that succeeds, and in the record
\* allocated exactly the satisfied fields below it differ from zero.
C6_Original ==
  (Bound /\ result.out = "ok") =>
    \A i \in Places :
      LET f == FieldAt(i)
      IN (/\ IsRecord(f) /\ f.Ptr
          /\ Before(i).ex /\ Before(i).v = Nil
          /\ \E x \in Places : Below(i, x) /\ Satisfied(FieldAt(x)))
           => /\ After(i).v # Nil
              /\ \A x \in Places :
                    (Below(i, x) /\ ~IsRecord(FieldAt(x)))
                      => (Satisfied(FieldAt(x))
                            <=> (After(x).ex /\ After(x).v # ZeroField(FieldAt(x))))

\* An exported field of the struct type t, one level below it, has a
\* satisfied annotation.
DirectlySatisfied(t) ==
  \E x \in 1..Len(Fields(t)) : Fields(t)[x].PkgPath = "" /\ Satisfied(Fields(t)[x])

\* C6, amended: a nil pointer to a record that has no satisfied annotation
\* of its own, lies in no record that has one, and has a satisfied
\* annotation on an exported field one level below it is allocated by a call
\* that succeeds; in the record allocated every field that is not a record
\* and that declares no variable name, or a non-empty name the environment
\* has no value for, is zero.
C6_Allocated ==
  (Bound /\ result.out = "ok") =>
    \A i \in Places :
      LET f == FieldAt(i)
      IN (/\ IsRecord(f) /\ f.Ptr
          /\ Before(i).ex /\ Before(i).v = Nil
          /\ ~Satisfied(f) /\ ~BoundAbove(i)
          /\ DirectlySatisfied(f.Type))
           => /\ After(i).v # Nil
              /\ \A x \in Places :
                    LET g == FieldAt(x)
                    IN (/\ Below(i, x) /\ ~IsRecord(g)
                        /\ ~Declares(g) \/ (Named(g) # "" /\ ~Satisfied(g))
                        /\ ~BoundAbove(x))
                         => After(x).ex /\ After(x).v = ZeroField(g)

\* A nil pointer to a record allocated for the one field of the record
\* that has a value, the last one; the other fields are zero.
C6_Witness ==
  /\ Bound /\ result.out = "ok"
  /\ env["SUB_NUM"] = <<"7">> /\ env["SUB_VAR"] = Nil /\ env["VAR_17"] = Nil
  /\ before.Var17NilPtr = Nil
  /\ testStruct.Var17NilPtr = Ref([Zero("TestSubStruct") EXCEPT !.Num = 7])

\* The parser keyword a field declares; "" when it declares none.
Keyword(f) == IF "env_parser" \in DOMAIN f.Tag THEN f.Tag["env_parser"] ELSE ""

InTable(table, key) == ~table.nil /\ key \in DOMAIN table.m

\* The coercions called, in the order of the calls.
Parses == {k \in DOMAIN result.log : result.log[k].ev = "parse"}

\* C7: the coercion called for a field is the first match of: the field's
\* non-empty keyword in the caller's keyword table, its type in the caller's
\* type table, its kind in the caller's kind table, its kind in the built-in
\* table; a keyword the keyword table does not hold and a table that is nil
\* match nothing.
C7_Precedence ==
  Bound =>
    \A k \in Parses :
      LET f == FieldAt(Pos(result.log[k].path))
          used == result.log[k].parser
          P == call.P
          byKeyword == Keyword(f) # "" /\ InTable(P.kw, Keyword(f))
          byType == InTable(P.type, f.Type)
          byKind == InTable(P.kind, Kind(f.Type))
      IN /\ byKeyword => used = P.kw.m[Keyword(f)]
         /\ (~byKeyword /\ byType) => used = P.type.m[f.Type]
         /\ (~byKeyword /\ ~byType /\ byKind) => used = P.kind.m[Kind(f.Type)]
         /\ (~byKeyword /\ ~byType /\ ~byKind) => used = parsers[Kind(f.Type)]

\* A call with all three tables: the keyword wins for Kw, the type table
\* for Kw2 (whose keyword the table does not hold) and over the kind table
\* for Var1, the built-in table for the integer Var3.
C7_Witness ==
  /\ Bound /\ result.out = "ok"
  /\ InTable(call.P.kw, "upper") /\ InTable(call.P.type, "string")
  /\ InTable(call.P.kind, "String")
  /\ env["VAR_KW"] # Nil /\ env["VAR_1"] # Nil
  /\ testStruct.Kw = "UPPER" /\ testStruct.Kw2 = "TYPE" /\ testStruct.Var1 = "TYPE"

\* The stores of a coerced value, in the order they were made.
Sets == {k \in DOMAIN result.log : result.log[k].ev = "set"}

\* The call ended at a field: with an error returned, or in a panic of
\* reflect.Value.Set.
Failed == Bound /\ result.out \in {"error", "panic"}

\* C8, as stated: a coercion that fails or a store that fails ends the call,
\* nothing is resolved or coerced after it, and the call returns the failure
\* as its error.
C8_FirstFailure ==
  Bound =>
    /\ \A k \in Parses :
         (~result.log[k].ok \/ k + 1 \notin Sets)
           => /\ k = Len(result.log)
              /\ result.at = result.log[k].path
              /\ result.out = "error"
    /\ result.out = "ok" => result.at = <<>>

\* C9, as stated: after a call that failed at a field, every field stored
\* before holds the value stored, and the failing field and every field
\* after it in the order of the walk hold what they held before the call.
C9_Original ==
  Failed =>
    /\ \A k \in Sets :
         LET i == Pos(result.log[k].path)
         IN After(i).ex /\ Held(FieldAt(i), After(i).v) = result.log[k].val
    /\ \A at \in {Pos(result.at)} : \A i \in Places :
         (i >= at /\ Before(i).ex)
           => After(i).ex /\ After(i).v = Before(i).v

\* C9, amended: after a call that failed at a field, every field stored
\* before holds the value stored, and the failing field and every field
\* after it in the order of the walk hold what they held before the call,
\* except that a failing field that was a nil pointer before the call
\* points to a zero value.
C9_PartialState ==
  Failed =>
    /\ \A k \in Sets :
         LET i == Pos(result.log[k].path)
         IN After(i).ex /\ Held(FieldAt(i), After(i).v) = result.log[k].val
    /\ \A at \in {Pos(result.at)} : \A i \in Places :
         (i >= at /\ Before(i).ex)
           => /\ After(i).ex
              /\ IF i = at /\ FieldAt(i).Ptr /\ Before(i).v = Nil
                   THEN After(i).v = Ref(Zero(FieldAt(i).Type))
                   ELSE After(i).v = Before(i).v

\* A call that failed at a nil pointer to an integer after it had bound the
\* fields before it: the pointer is allocated, the fields after it hold
\* their defaults.
C9_Witness ==
  /\ Failed /\ result.at = <<"Var4NilPtr">>
  /\ env["VAR_4"] = <<"40000">> /\ env["VAR_1"] = <<"test">>
  /\ before.Var4NilPtr = Nil /\ testStruct.Var4NilPtr = Ref(0)
  /\ before.Var1 = "default" /\ testStruct.Var1 = "test"
  /\ testStruct.Var18 = "default" /\ testStruct.Var21 = TRUE

\* C10: a call with a target that is not a pointer, a pointer to something
\* that is not a struct, or a nil pointer panics before a field is visited
\* and leaves the record and the environment as they were.
C10_InvalidTarget ==
  [][(pc = "ready" /\ pc' = "done" /\ call'.itf # "&testStruct")
       => /\ result'.out = "panic" /\ result'.log = <<>> /\ result'.at = <<>>
          /\ testStruct' = testStruct
          /\ env' = env]_vars

\* A call with the record itself, with variables of its fields set.
C10_Witness ==
  /\ pc = "done" /\ call.itf = "testStruct"
  /\ result.out = "panic" /\ result.log = <<>>
  /\ env["VAR_1"] = <<"test">>
  /\ testStruct = before /\ testStruct.Var1 = "default"

\* No layer of the registry has a coercion for the field under the tables of
\* the call.
NoCoercion(f) ==
  /\ ~(Keyword(f) # "" /\ InTable(call.P.kw, Keyword(f)))
  /\ ~InTable(call.P.type, f.Type)
  /\ ~InTable(call.P.kind, Kind(f.Type))
  /\ Kind(f.Type) \notin DOMAIN parsers

\* The walk came to the satisfied field at place i, which existed before the
\* call and for which no layer has a coercion.
Unbindable(i) ==
  /\ FieldAt(i).PkgPath = "" /\ Satisfied(FieldAt(i)) /\ ~BoundAbove(i)
  /\ NoCoercion(FieldAt(i))
  /\ Before(i).ex /\ Reached(i)

\* C11, as stated: a satisfied field no layer has a coercion for does not
\* make the call fail and holds after the call what it held before it, a nil
\* pointer staying nil.
C11_Original ==
  Bound =>
    \A i \in Places :
      Unbindable(i)
        => /\ result.at # PathOf(i)
           /\ \A k \in Parses : result.log[k].path # PathOf(i)
           /\ After(i).ex /\ After(i).v = Before(i).v

\* C11, amended: a satisfied field no layer has a coercion for does not make
\* the call fail, no coercion is called for it, and it holds after the call
\* what it held before it, except that a pointer that was nil before the
\* call points to a zero value.
C11_Unbound ==
  Bound =>
    \A i \in Places :
      Unbindable(i)
        => /\ result.at # PathOf(i)
           /\ \A k \in Parses : result.log[k].path # PathOf(i)
           /\ After(i).ex
           /\ IF FieldAt(i).Ptr /\ Before(i).v = Nil
                THEN After(i).v = Ref(Zero(FieldAt(i).Type))
                ELSE After(i).v = Before(i).v

\* A successful call with the variable of the two array fields set: the
\* array is as it was, the nil pointer to an array is allocated.
C11_Witness ==
  /\ Bound /\ result.out = "ok"
  /\ env["VAR_ARR"] = <<"x">>
  /\ before.Arr = <<"", "">> /\ testStruct.Arr = <<"", "">>
  /\ before.ArrNilPtr = Nil /\ testStruct.ArrNilPtr = Ref(<<"", "">>)

\* The places of the getEnv made for a field in the walk, by event.
Resolves == {k \in DOMAIN result.log : result.log[k].ev = "getEnv"}

\* C12, as stated: getEnv reports a field as having a value exactly when the
\* field declares a non-empty variable name that the environment has a value
\* for, and nothing is stored in a field that does not.
C12_Satisfied ==
  Bound =>
    /\ \A k \in Resolves :
         result.log[k].ok <=> Satisfied(FieldAt(Pos(result.log[k].path)))
    /\ \A k \in Sets : Satisfied(FieldAt(Pos(result.log[k].path)))

\* C13, as stated: under the built-in coercions a value that was coerced
\* for a field without an error is stored in the field, having the field's
\* declared type, be that type a basic type or a named type of its kind; no
\* call ends in a panic of the store.
C13_TypedWrite ==
  BuiltIn =>
    /\ result.out # "panic"
    /\ \A k \in Parses :
         result.log[k].ok
           => /\ k + 1 \in Sets
              /\ result.log[k + 1].path = result.log[k].path

\* loadEnv was called on the record of the field at place i.
Entered(i) ==
  \E k \in DOMAIN result.log :
    result.log[k].ev = "loadEnv" /\ result.log[k].path = PathOf(i)

\* The field at place i held a record, or a pointer to one, before the call.
Present(i) == Before(i).ex /\ (FieldAt(i).Ptr => Before(i).v # Nil)

\* C14, as stated: the walk goes into a field that is a record exactly when
\* the field declares no variable name.
C14_Original ==
  Bound =>
    \A i \in Places :
      (IsRecord(FieldAt(i)) /\ Reached(i)) => (Entered(i) <=> ~Declares(FieldAt(i)))

\* C14, amended: of the fields that are records and declare no variable
\* name or a non-empty one, the walk goes into none whose variable the
\* environment has a value for, and into every other one that is a record
\* by value or a pointer that was not nil; into one that was a nil pointer
\* it goes exactly when the call allocates it, which it does when an
\* exported field one level below has a variable with a value.
C14_Recursion ==
  Bound =>
    \A i \in Places :
      LET f == FieldAt(i)
      IN (IsRecord(f) /\ Reached(i) /\ (Declares(f) => Named(f) # ""))
           => /\ Satisfied(f) => ~Entered(i)
              /\ (~Satisfied(f) /\ Present(i)) => Entered(i)
              /\ (~Satisfied(f) /\ ~Present(i))
                   => /\ Entered(i) <=> (After(i).ex /\ After(i).v # Nil)
                      /\ DirectlySatisfied(f.Type) => Entered(i)

\* The record Var17 declares VAR_17, which the environment has no value
\* for: the walk went into it and bound its field Var from SUB_VAR; the nil
\* pointer Far, which declares no name, was not gone into.
C14_Witness ==
  /\ Bound /\ result.out = "ok"
  /\ env["VAR_17"] = Nil /\ env["SUB_VAR"] = <<"test">>
  /\ before.Var17.Var = "" /\ testStruct.Var17.Var = "test"
  /\ \E i \in Places : PathOf(i) = <<"Var17">> /\ Entered(i)
  /\ \E i \in Places : PathOf(i) = <<"Far">> /\ Reached(i) /\ ~Entered(i)

\* The tokens of the parameter list a field declares, and the key and the
\* value of a token that contains the character "=": the text before the
\* first one and the text after the first one.
Tokens(f) ==
  IF "env_params" \in DOMAIN f.Tag /\ f.Tag["env_params"] # ""
    THEN Split(Chars(f.Tag["env_params"]), ";") ELSE <<>>
FirstEqual(v) == CHOOSE i \in 1..Len(v) : v[i] = "=" /\ \A j \in 1..(i - 1) : v[j] # "="
KeyOf(v) == SubSeq(v, 1, FirstEqual(v) - 1)
ValueOf(v) == SubSeq(v, FirstEqual(v) + 1, Len(v))

\* C15, as stated: a coercion is called with the tokens of the field's
\* parameter list that hold no "=" as positional parameters, in their order,
\* and with a keyword parameter for every token that holds one: its key the
\* text before the first "=", its value all the text after the first "=".
C15_Parameters ==
  Bound =>
    \A k \in Parses :
      LET toks == Tokens(FieldAt(Pos(result.log[k].path)))
          kws == SelectSeq(toks, LAMBDA v : Contains(v, "="))
      IN /\ result.log[k].params = SelectSeq(toks, LAMBDA v : ~Contains(v, "="))
         /\ DOMAIN result.log[k].kwParams = {KeyOf(kws[j]) : j \in DOMAIN kws}
         /\ \A j \in DOMAIN kws : result.log[k].kwParams[KeyOf(kws[j])] = ValueOf(kws[j])

\* No exported field one level below a record of type t has a value from
\* getEnv: each declares no variable name, or a non-empty one that the
\* environment has no value for.
NoPublicValue(t) ==
  \A x \in 1..Len(Fields(t)) :
    Fields(t)[x].PkgPath = ""
      => \/ ~Declares(Fields(t)[x])
         \/ Named(Fields(t)[x]) # "" /\ ~Satisfied(Fields(t)[x])

\* Nothing was done at the field at place i: no getEnv, no coercion, no
\* store, no walk into it, and it holds what it held, or zero where the call
\* made the record it lies in.
Untouched(i) ==
  /\ \A k \in DOMAIN result.log : result.log[k].path # PathOf(i)
  /\ (Before(i).ex /\ After(i).ex) => After(i).v = Before(i).v
  /\ (~Before(i).ex /\ After(i).ex) => After(i).v = ZeroField(FieldAt(i))

\* C16, as stated: nothing is done at a field that is not exported, and a
\* nil pointer to a record stays nil when the walk comes to it with no
\* variable of its own set and none of an exported field one level below it,
\* whatever the fields it does not export declare.
C16_Invisible ==
  Bound =>
    \A i \in Places :
      LET f == FieldAt(i)
      IN /\ f.PkgPath # "" => Untouched(i)
         /\ (/\ IsRecord(f) /\ f.Ptr /\ Reached(i) /\ ~Present(i)
             /\ ~Declares(f) /\ NoPublicValue(f.Type))
              => After(i).ex /\ After(i).v = Nil

\* C17, as stated: a nil pointer to a record that the walk comes to with
\* no variable of its own set, and with no field one level below it that has
\* a satisfied annotation, stays nil and is not gone into, whatever the
\* fields further below it declare.
C17_OneLevel ==
  Bound =>
    \A i \in Places :
      LET f == FieldAt(i)
      IN (/\ IsRecord(f) /\ f.Ptr /\ Reached(i) /\ ~Present(i) /\ ~Satisfied(f)
          /\ \A x \in 1..Len(Fields(f.Type)) : ~Satisfied(Fields(f.Type)[x]))
           => /\ After(i).ex /\ After(i).v = Nil
              /\ ~Entered(i)

\* C18: LoadEnv called a second time, on the record the first call left and
\* in the same environment, ends as the first call ended, at the same field
\* where that failed, and leaves the record as the first call left it, with
\* the same pointers nil.
C18_Idempotent ==
  [][(pc = "done" /\ pc' = "again")
       => /\ result'.out = result.out
          /\ result'.at = result.at
          /\ testStruct' = testStruct]_vars

\* A second call that succeeded: the pointers the first call allocated
\* point to what it bound, the pointer it left nil is nil, and the record is
\* the one the second call began with.
C18_Witness ==
  /\ pc = "again" /\ call.itf = "&testStruct" /\ result.out = "ok"
  /\ env["VAR_1"] = <<"test">> /\ env["SUB_VAR"] = <<"test">>
  /\ testStruct.Var1NilPtr = Ref("test")
  /\ testStruct.Var17NilPtr # Nil /\ testStruct.Var17NilPtr[1].VarNilPtr = Ref("test")
  /\ testStruct.Far = Nil
  /\ before = testStruct

====
